---- MODULE Spec2Model ----
(***************************************************************************)
(* Social-graph core of the project gallery backend: the follow-request    *)
(* ledger, the followers/following/connections sets of the user documents  *)
(* and the route handlers of routes/users.js that mutate them, together    *)
(* with message sending of routes/messages.js.                             *)
(*                                                                         *)
(* Every handler is an async function; between two awaits other requests   *)
(* may run.  A handler is therefore modelled as a process whose steps are  *)
(* its store operations (one atomic document operation per await).  The    *)
(* synchronous prefix of a handler runs together with its first store      *)
(* operation.  A handler that has answered holds no state any more; the    *)
(* answer it sent is kept in `reply` until the next answer is sent.        *)
(***************************************************************************)
EXTENDS Integers, FiniteSets, Sequences, TLC

\* ---- bounds ----
NumUsers == 3
NumProcs == 2
MaxReq == 2
MaxOps == 3
MaxGone == 1
NumCodes == 2
MaxTicks == 2

\* user documents that exist in the collection
UserIds == 1..NumUsers
\* well-formed ids a client may put in a URL; 0 resolves to no document
Ids == 0..NumUsers
\* request handlers that may be in flight at the same time
Procs == 1..NumProcs
\* ids of follow_request documents (ObjectIds are never reused)
ReqIds == 1..MaxReq
\* message bodies a client sends: blank, and non-blank with a space to trim
Bodies == {<<>>, <<" ">>, <<"a", " ">>}

VARIABLES
    followers,      \* User.followers   : [UserIds -> SUBSET Ids]
    following,      \* User.following   : [UserIds -> SUBSET Ids]
    connections,    \* User.connections : [UserIds -> SUBSET Ids]
    followRequests, \* the follow_request collection: set of rows
    nextId,         \* next fresh _id of a follow_request row
    emails,         \* notifications the mail service delivered
    messages,       \* the message collection, in creation order
    outbox,         \* new-message notifications not yet settled
    pc,             \* per handler: the await it is suspended at
    route,          \* per handler: the route being served
    me,             \* per handler: req.user._id
    param,          \* per handler: req.params.id (req.body.toUserId)
    request,        \* per handler: the local `request` of accept/decline
    text,           \* per handler: req.body.text of POST /messages
    reply,          \* the response sent last, with the request it answers
    started,        \* number of requests served so far
    gone,           \* user documents removed from the collection
    otpStore,       \* the in-memory Map email -> {otp, expiresAt}
    time,           \* Date.now() as the auth routes read it
    accounts,       \* email and username of the registered users
    form            \* per handler: emailNorm and usernameNorm of signup

db == <<followers, following, connections, followRequests, nextId>>
sets == <<followers, following, connections>>
mail == <<emails, messages, outbox>>
locals == <<pc, route, me, param, request, text>>
vars == <<followers, following, connections, followRequests, nextId, emails,
          messages, outbox, pc, route, me, param, request, text, reply, started,
          gone, otpStore, time, accounts, form>>
auth == <<otpStore, time, accounts, form>>

\* the user documents in the collection
Users == UserIds \ gone

\* ---- signup verification (routes/auth.js) ----
OTP_EXPIRY_MS == 600000

\* email addresses as clients type them, and what toLowerCase().trim()
\* makes of them
RawEmails == {"a", "A ", "b", " "}
normalize(email) ==
    IF email \in {"a", "A "} THEN "a" ELSE IF email = " " THEN "" ELSE email
Emails == {normalize(email) : email \in RawEmails} \ {""}
Usernames == {"ann", "bob"}

\* the values of generateOtp(); 0 stands for an otp field that is missing
\* or not six characters long
Codes == 1..NumCodes
NoOtp == [otp |-> 0, expiresAt |-> 0]
NoForm == [email |-> "", username |-> ""]

\* ---- responses ----
NoResponse == [status |-> 0, true |-> {}, false |-> {}, error |-> ""]
Json(t, f) == [status |-> 200, true |-> t, false |-> f, error |-> ""]
Created(t, f) == [status |-> 201, true |-> t, false |-> f, error |-> ""]
Error(code, msg) == [status |-> code, true |-> {}, false |-> {}, error |-> msg]

NoRequest == [id |-> 0, fromUserId |-> 0, toUserId |-> 0, status |-> "null"]

\* ---- queries on the follow_request collection ----
\* FollowRequest.findOne({fromUserId, toUserId, status: 'pending'})
PendingRows(from, to) ==
    {r \in followRequests : r.fromUserId = from /\ r.toUserId = to /\ r.status = "pending"}

\* variant: the filter without toUserId
OwnPendingRows_AnyUser(id, user) ==
    {r \in followRequests : r.id = id /\ r.status = "pending"}

\* FollowRequest.findOne({_id, toUserId: req.user._id, status: 'pending'})
OwnPendingRows(id, user) ==
    {r \in followRequests : r.id = id /\ r.toUserId = user /\ r.status = "pending"}

\* variant: the collection without the unique index
IndexCollisions_NoIndex(from, to) == {}

\* the unique index on (fromUserId, toUserId): rows that collide with a new one
IndexCollisions(from, to) ==
    {r \in followRequests : r.fromUserId = from /\ r.toUserId = to}

\* FollowRequest.findByIdAndUpdate(id, {status})
SetStatus(id, status) ==
    {IF r.id = id THEN [r EXCEPT !.status = status] ELSE r : r \in followRequests}

\* GET /:id/connected
connected(user, id) == id \in connections[user]

\* variant: the request lookup leaves out the status filter
followStatus_AnyStatus(user, otherId) ==
    [following |-> otherId \in following[user],
     requested |-> IndexCollisions(user, otherId) # {}]

\* GET /:id/follow-status
followStatus(user, otherId) ==
    [following |-> otherId \in following[user],
     requested |-> PendingRows(user, otherId) # {}]

\* String.prototype.trim on a text given as a sequence of characters
RECURSIVE TrimStart(_)
TrimStart(t) == IF t # <<>> /\ Head(t) = " " THEN TrimStart(Tail(t)) ELSE t

RECURSIVE TrimEnd(_)
TrimEnd(t) ==
    IF t # <<>> /\ t[Len(t)] = " " THEN TrimEnd(SubSeq(t, 1, Len(t) - 1)) ELSE t

trim(t) == TrimEnd(TrimStart(t))

\* ---- handler bookkeeping ----
Idle(p) == pc[p] = "idle"

InFlightFollows == Cardinality({p \in Procs : route[p] = "follow"})

\* a request arrives and handler p starts serving it
Begin(p) ==
    /\ Idle(p)
    /\ started < MaxOps
    /\ started' = started + 1

\* a handler that only reads, or only marks as read, starts; one of them
\* is still served when the budget of the other requests is used up
BeginRead(p) ==
    /\ Idle(p)
    /\ started <= MaxOps
    /\ started' = started + 1

\* handler p, serving route r for `user` with parameter id, suspends at an await
Park(p, label, r, user, id, req, body) ==
    /\ pc' = [pc EXCEPT ![p] = label]
    /\ route' = [route EXCEPT ![p] = r]
    /\ me' = [me EXCEPT ![p] = user]
    /\ param' = [param EXCEPT ![p] = id]
    /\ request' = [request EXCEPT ![p] = req]
    /\ text' = [text EXCEPT ![p] = body]
    /\ UNCHANGED <<reply, gone>>

\* the same for a handler of routes/users.js or routes/messages.js
Suspend(p, label, r, user, id, req, body) ==
    /\ Park(p, label, r, user, id, req, body)
    /\ UNCHANGED auth

Goto(p, label) ==
    Suspend(p, label, route[p], me[p], param[p], request[p], text[p])

\* handler p sends its response and ends
Answer(p, r, user, id, response) ==
    /\ pc' = [pc EXCEPT ![p] = "idle"]
    /\ route' = [route EXCEPT ![p] = "none"]
    /\ me' = [me EXCEPT ![p] = 0]
    /\ param' = [param EXCEPT ![p] = 0]
    /\ request' = [request EXCEPT ![p] = NoRequest]
    /\ text' = [text EXCEPT ![p] = <<>>]
    /\ reply' = [route |-> r, me |-> user, param |-> id, res |-> response]
    /\ UNCHANGED <<gone, auth>>

Respond(p, response) == Answer(p, route[p], me[p], param[p], response)

Init ==
    /\ followers = [u \in UserIds |-> {}]
    /\ following = [u \in UserIds |-> {}]
    /\ connections = [u \in UserIds |-> {}]
    /\ followRequests = {}
    /\ nextId = 1
    /\ emails = {}
    /\ messages = <<>>
    /\ outbox = {}
    /\ pc = [p \in Procs |-> "idle"]
    /\ route = [p \in Procs |-> "none"]
    /\ me = [p \in Procs |-> 0]
    /\ param = [p \in Procs |-> 0]
    /\ request = [p \in Procs |-> NoRequest]
    /\ text = [p \in Procs |-> <<>>]
    /\ reply = [route |-> "none", me |-> 0, param |-> 0, res |-> NoResponse]
    /\ started = 0
    /\ gone = {}
    /\ otpStore = [e \in Emails |-> NoOtp]
    /\ time = 0
    /\ accounts = {[email |-> "b", username |-> "bob"]}
    /\ form = [p \in Procs |-> NoForm]

\* variant: the result of User.findById is not tested
Follow_NoTargetCheck(p, user, targetId) ==
    /\ Begin(p)
    /\ nextId + InFlightFollows <= MaxReq
    /\ IF targetId = user
         THEN Answer(p, "follow", user, targetId, Error(400, "Cannot follow yourself"))
         ELSE Suspend(p, "follow_existing", "follow", user, targetId,
                      NoRequest, <<>>)
    /\ UNCHANGED <<db, mail>>

\* ---- POST /:id/follow ----
\* self check, then User.findById(targetId)
Follow(p, user, targetId) ==
    /\ Begin(p)
    /\ nextId + InFlightFollows <= MaxReq
    /\ IF targetId = user
         THEN Answer(p, "follow", user, targetId, Error(400, "Cannot follow yourself"))
         ELSE IF targetId \notin Users
                THEN Answer(p, "follow", user, targetId, Error(404, "User not found"))
                ELSE Suspend(p, "follow_existing", "follow", user, targetId,
                             NoRequest, <<>>)
    /\ UNCHANGED <<db, mail>>

\* FollowRequest.findOne({fromUserId, toUserId, status: 'pending'})
FollowExisting(p) ==
    /\ pc[p] = "follow_existing"
    /\ IF PendingRows(me[p], param[p]) # {}
         THEN Respond(p, Json({"success", "requested"}, {}))
         ELSE Goto(p, "follow_already")
    /\ UNCHANGED <<db, mail, started>>

\* variant: the query names `followers` instead of `following`
FollowAlready_WrongField(p) ==
    /\ pc[p] = "follow_already"
    /\ IF param[p] \in followers[me[p]]
         THEN Respond(p, Json({"success", "following"}, {}))
         ELSE Goto(p, "follow_create")
    /\ UNCHANGED <<db, mail, started>>

\* User.findOne({_id: req.user._id, following: targetId})
FollowAlready(p) ==
    /\ pc[p] = "follow_already"
    /\ IF param[p] \in following[me[p]]
         THEN Respond(p, Json({"success", "following"}, {}))
         ELSE Goto(p, "follow_create")
    /\ UNCHANGED <<db, mail, started>>

\* FollowRequest.create(...): rejected by the unique index when any row of
\* the pair exists (E11000, caught and answered with 500)
FollowCreate(p) ==
    /\ pc[p] = "follow_create"
    /\ IF IndexCollisions(me[p], param[p]) # {}
         THEN /\ Respond(p, Error(500, "E11000 duplicate key"))
              /\ UNCHANGED <<followRequests, nextId>>
         ELSE /\ followRequests' = followRequests \cup
                     {[id |-> nextId, fromUserId |-> me[p],
                       toUserId |-> param[p], status |-> "pending"]}
              /\ nextId' = nextId + 1
              /\ Goto(p, "follow_email")
    /\ UNCHANGED <<sets, mail, started>>

\* await sendFollowRequestEmail(...): sendEmail swallows a transport error
FollowEmail(p) ==
    /\ pc[p] = "follow_email"
    /\ \E sent \in BOOLEAN :
         emails' = IF sent THEN emails \cup {<<"follow", me[p], param[p]>>}
                   ELSE emails
    /\ Respond(p, Json({"success", "requested"}, {}))
    /\ UNCHANGED <<db, messages, outbox, started>>

\* ---- DELETE /:id/follow ----
\* FollowRequest.findOneAndDelete({fromUserId, toUserId, status: 'pending'})
Unfollow(p, user, targetId) ==
    /\ Begin(p)
    /\ LET found == PendingRows(user, targetId) IN
         followRequests' = IF found = {} THEN followRequests
                           ELSE followRequests \ {CHOOSE r \in found : TRUE}
    /\ Suspend(p, "unfollow_following", "unfollow", user, targetId, NoRequest, <<>>)
    /\ UNCHANGED <<sets, nextId, mail>>

\* variant: the first $pull is applied to the target's document
UnfollowFollowing_TargetDoc(p) ==
    /\ pc[p] = "unfollow_following"
    /\ following' = IF param[p] \in UserIds
                      THEN [following EXCEPT ![param[p]] = @ \ {me[p]}]
                      ELSE following
    /\ Goto(p, "unfollow_followers")
    /\ UNCHANGED <<followers, connections, followRequests, nextId, mail, started>>

\* User.findByIdAndUpdate(req.user._id, {$pull: {following: targetId}})
UnfollowFollowing(p) ==
    /\ pc[p] = "unfollow_following"
    /\ following' = [following EXCEPT ![me[p]] = @ \ {param[p]}]
    /\ Goto(p, "unfollow_followers")
    /\ UNCHANGED <<followers, connections, followRequests, nextId, mail, started>>

\* variant: the second $pull names `following` again
UnfollowFollowers_WrongField(p) ==
    /\ pc[p] = "unfollow_followers"
    /\ following' = IF param[p] \in UserIds
                      THEN [following EXCEPT ![param[p]] = @ \ {me[p]}]
                      ELSE following
    /\ Respond(p, Json({"success"}, {"following", "requested"}))
    /\ UNCHANGED <<followers, connections, followRequests, nextId, mail, started>>

\* User.findByIdAndUpdate(targetId, {$pull: {followers: req.user._id}})
UnfollowFollowers(p) ==
    /\ pc[p] = "unfollow_followers"
    /\ followers' = IF param[p] \in UserIds
                      THEN [followers EXCEPT ![param[p]] = @ \ {me[p]}]
                      ELSE followers
    /\ Respond(p, Json({"success"}, {"following", "requested"}))
    /\ UNCHANGED <<following, connections, followRequests, nextId, mail, started>>

\* variant: the lookup leaves out the status filter
Accept_AnyStatus(p, user, id) ==
    /\ Begin(p)
    /\ LET found == {r \in followRequests : r.id = id /\ r.toUserId = user} IN
         IF found = {}
           THEN Answer(p, "accept", user, id, Error(404, "Request not found"))
           ELSE Suspend(p, "accept_status", "accept", user, id,
                        CHOOSE r \in found : TRUE, <<>>)
    /\ UNCHANGED <<db, mail>>

\* ---- POST /follow-requests/:id/accept ----
\* FollowRequest.findOne({_id, toUserId: req.user._id, status: 'pending'})
Accept(p, user, id) ==
    /\ Begin(p)
    /\ LET found == OwnPendingRows(id, user) IN
         IF found = {}
           THEN Answer(p, "accept", user, id, Error(404, "Request not found"))
           ELSE Suspend(p, "accept_status", "accept", user, id,
                        CHOOSE r \in found : TRUE, <<>>)
    /\ UNCHANGED <<db, mail>>

\* FollowRequest.findByIdAndUpdate(req.params.id, {status: 'accepted'})
AcceptStatus(p) ==
    /\ pc[p] = "accept_status"
    /\ followRequests' = SetStatus(param[p], "accepted")
    /\ Goto(p, "accept_following")
    /\ UNCHANGED <<sets, nextId, mail, started>>

\* variant: the two ids of the update exchanged
AcceptFollowing_Swapped(p) ==
    /\ pc[p] = "accept_following"
    /\ following' = [following EXCEPT ![me[p]] = @ \cup {request[p].fromUserId}]
    /\ Goto(p, "accept_followers")
    /\ UNCHANGED <<followers, connections, followRequests, nextId, mail, started>>

\* User.findByIdAndUpdate(request.fromUserId, {$addToSet: {following: me}})
AcceptFollowing(p) ==
    /\ pc[p] = "accept_following"
    /\ following' = [following EXCEPT ![request[p].fromUserId] = @ \cup {me[p]}]
    /\ Goto(p, "accept_followers")
    /\ UNCHANGED <<followers, connections, followRequests, nextId, mail, started>>

\* variant: the update addressed to the sender's document
AcceptFollowers_WrongDoc(p) ==
    /\ pc[p] = "accept_followers"
    /\ followers' = [followers EXCEPT ![request[p].fromUserId] = @ \cup {me[p]}]
    /\ Respond(p, Json({"success", "following"}, {}))
    /\ UNCHANGED <<following, connections, followRequests, nextId, mail, started>>

\* variant: the last update of accept writes both sides of the edge
AcceptFollowers_BothSets(p) ==
    /\ pc[p] = "accept_followers"
    /\ followers' = [followers EXCEPT ![me[p]] = @ \cup {request[p].fromUserId}]
    /\ following' = [following EXCEPT ![request[p].fromUserId] = @ \cup {me[p]}]
    /\ Respond(p, Json({"success", "following"}, {}))
    /\ UNCHANGED <<connections, followRequests, nextId, mail, started>>

\* User.findByIdAndUpdate(req.user._id, {$addToSet: {followers: from}})
AcceptFollowers(p) ==
    /\ pc[p] = "accept_followers"
    /\ followers' = [followers EXCEPT ![me[p]] = @ \cup {request[p].fromUserId}]
    /\ Respond(p, Json({"success", "following"}, {}))
    /\ UNCHANGED <<following, connections, followRequests, nextId, mail, started>>

\* ---- POST /follow-requests/:id/decline ----
\* FollowRequest.findOne({_id, toUserId: req.user._id, status: 'pending'})
Decline(p, user, id) ==
    /\ Begin(p)
    /\ LET found == OwnPendingRows(id, user) IN
         IF found = {}
           THEN Answer(p, "decline", user, id, Error(404, "Request not found"))
           ELSE Suspend(p, "decline_status", "decline", user, id,
                        CHOOSE r \in found : TRUE, <<>>)
    /\ UNCHANGED <<db, mail>>

\* FollowRequest.findByIdAndUpdate(req.params.id, {status: 'declined'})
DeclineStatus(p) ==
    /\ pc[p] = "decline_status"
    /\ followRequests' = SetStatus(param[p], "declined")
    /\ Respond(p, Json({"success"}, {}))
    /\ UNCHANGED <<sets, nextId, mail, started>>

\* variant: the handler without its self check
Connect_NoSelfCheck(p, user, targetId) ==
    /\ Begin(p)
    /\ IF targetId \notin Users
         THEN Answer(p, "connect", user, targetId, Error(404, "User not found"))
         ELSE Suspend(p, "connect_me", "connect", user, targetId, NoRequest, <<>>)
    /\ UNCHANGED <<db, mail>>

\* ---- POST /:id/connect ----
\* self check, then User.findById(targetId)
Connect(p, user, targetId) ==
    /\ Begin(p)
    /\ IF targetId = user
         THEN Answer(p, "connect", user, targetId,
                     Error(400, "Cannot connect with yourself"))
         ELSE IF targetId \notin Users
                THEN Answer(p, "connect", user, targetId, Error(404, "User not found"))
                ELSE Suspend(p, "connect_me", "connect", user, targetId,
                             NoRequest, <<>>)
    /\ UNCHANGED <<db, mail>>

\* variant: connecting also makes the caller follow the target
ConnectMe_AlsoFollows(p) ==
    /\ pc[p] = "connect_me"
    /\ connections' = [connections EXCEPT ![me[p]] = @ \cup {param[p]}]
    /\ following' = [following EXCEPT ![me[p]] = @ \cup {param[p]}]
    /\ Goto(p, "connect_target")
    /\ UNCHANGED <<followers, followRequests, nextId, mail, started>>

\* User.findByIdAndUpdate(req.user._id, {$addToSet: {connections: targetId}})
ConnectMe(p) ==
    /\ pc[p] = "connect_me"
    /\ connections' = [connections EXCEPT ![me[p]] = @ \cup {param[p]}]
    /\ Goto(p, "connect_target")
    /\ UNCHANGED <<followers, following, followRequests, nextId, mail, started>>

\* variant: the second update addressed to req.user._id again
ConnectTarget_SameDoc(p) ==
    /\ pc[p] = "connect_target"
    /\ connections' = [connections EXCEPT ![me[p]] = @ \cup {param[p]}]
    /\ Respond(p, Json({"success", "connected"}, {}))
    /\ UNCHANGED <<followers, following, followRequests, nextId, mail, started>>

\* User.findByIdAndUpdate(targetId, {$addToSet: {connections: me}})
ConnectTarget(p) ==
    /\ pc[p] = "connect_target"
    /\ connections' = [connections EXCEPT ![param[p]] = @ \cup {me[p]}]
    /\ Respond(p, Json({"success", "connected"}, {}))
    /\ UNCHANGED <<followers, following, followRequests, nextId, mail, started>>

\* variant: the text is tested without trim()
SendMessage_NoTrim(p, user, toUserId, given, body) ==
    /\ Begin(p)
    /\ IF ~given \/ body = <<>>
         THEN Answer(p, "send", user, toUserId, Error(400, "toUserId and text required"))
         ELSE IF toUserId \notin Users
                THEN Answer(p, "send", user, toUserId, Error(404, "User not found"))
                ELSE Suspend(p, "send_create", "send", user, toUserId, NoRequest, body)
    /\ UNCHANGED <<db, mail>>

\* ---- POST /messages ----
\* body validation, then User.findById(toUserId)
SendMessage(p, user, toUserId, given, body) ==
    /\ Begin(p)
    /\ IF ~given \/ trim(body) = <<>>
         THEN Answer(p, "send", user, toUserId, Error(400, "toUserId and text required"))
         ELSE IF toUserId \notin Users
                THEN Answer(p, "send", user, toUserId, Error(404, "User not found"))
                ELSE Suspend(p, "send_create", "send", user, toUserId, NoRequest, body)
    /\ UNCHANGED <<db, mail>>

\* createdAt of the newest message document (0 when there is none)
LastTime == IF messages = <<>> THEN 0 ELSE messages[Len(messages)].createdAt

\* the clock never runs backwards; two documents may get the same millisecond
Stamps == {LastTime, LastTime + 1} \ {0}

\* the Message schema: read defaults to false, createdAt is set on creation
NewMessage(sender, receiver, body, now) ==
    [senderId |-> sender, receiverId |-> receiver, text |-> body,
     read |-> FALSE, createdAt |-> now]

\* variant: the text is stored as it was received
SendCreate_Untrimmed(p) ==
    /\ pc[p] = "send_create"
    /\ \E now \in Stamps :
         messages' = Append(messages, NewMessage(me[p], param[p], text[p], now))
    /\ outbox' = outbox \cup {<<"message", me[p], param[p]>>}
    /\ Respond(p, Created({"isMe"}, {"read"}))
    /\ UNCHANGED <<db, emails, started>>

\* Message.create(...), sendNewMessageEmail(...) left running, 201
SendCreate(p) ==
    /\ pc[p] = "send_create"
    /\ \E now \in Stamps :
         messages' = Append(messages, NewMessage(me[p], param[p], trim(text[p]), now))
    /\ outbox' = outbox \cup {<<"message", me[p], param[p]>>}
    /\ Respond(p, Created({"isMe"}, {"read"}))
    /\ UNCHANGED <<db, emails, started>>

\* ---- GET /messages/conversations ----
\* res.json(list)
JsonList(list) ==
    [status |-> 200, true |-> {}, false |-> {}, error |-> "", list |-> list]

\* Message.find({$or: [{senderId: me}, {receiverId: me}]})
Found(user) ==
    {i \in DOMAIN messages :
        messages[i].senderId = user \/ messages[i].receiverId = user}

\* .sort({createdAt: -1}): the orders the store may return the documents
\* in; documents of one millisecond come in any order
Orders(S) ==
    {o \in [1..Cardinality(S) -> S] :
        /\ \A i, j \in DOMAIN o : i # j => o[i] # o[j]
        /\ \A i, j \in DOMAIN o :
              i < j => messages[o[i]].createdAt >= messages[o[j]].createdAt}

\* the counterpart of a message found for `user`
otherId(m, user) == IF m.senderId = user THEN m.receiverId ELSE m.senderId

\* [...byOther.keys()] after the first n documents: counterparts in the
\* order in which the loop met them
RECURSIVE userIds(_, _, _)
userIds(o, user, n) ==
    IF n = 0 THEN <<>>
    ELSE LET ks == userIds(o, user, n - 1)
             k == otherId(messages[o[n]], user)
         IN IF \E i \in DOMAIN ks : ks[i] = k THEN ks ELSE Append(ks, k)

\* variant: a message the user sent to themself is not counted
unreadCount_NoSelf(o, user, c) ==
    Cardinality({i \in DOMAIN o :
                    /\ otherId(messages[o[i]], user) = c
                    /\ messages[o[i]].receiverId = user
                    /\ messages[o[i]].senderId # user
                    /\ ~messages[o[i]].read})

\* variant: only a last message that is unread is counted
unreadCount_LastOnly(o, user, c) ==
    LET first == CHOOSE i \in DOMAIN o :
                    /\ otherId(messages[o[i]], user) = c
                    /\ \A j \in 1..(i - 1) : otherId(messages[o[j]], user) # c
    IN IF messages[o[first]].receiverId = user /\ ~messages[o[first]].read
         THEN 1 ELSE 0

\* entry.unreadCount: every document of the counterpart's entry that was
\* sent to `user` and is not read
unreadCount(o, user, c) ==
    Cardinality({i \in DOMAIN o :
                    /\ otherId(messages[o[i]], user) = c
                    /\ messages[o[i]].receiverId = user
                    /\ ~messages[o[i]].read})

\* entry.lastMessage: the document that created the counterpart's entry
lastMessage(o, user, c) ==
    messages[o[CHOOSE i \in DOMAIN o :
                  /\ otherId(messages[o[i]], user) = c
                  /\ \A j \in 1..(i - 1) : otherId(messages[o[j]], user) # c]]

\* userMap.get(uid) || {} and u.name || 'Unknown': the name of a user
\* whose document User.find returned, the fallback otherwise
name(c) == IF c \in Users THEN "name" ELSE "Unknown"

\* one element of userIds.map(...)
Row(o, user, c) ==
    LET m == lastMessage(o, user, c) IN
    [id |-> c,
     name |-> name(c),
     lastMessage |-> [text |-> m.text, createdAt |-> m.createdAt,
                      isMe |-> m.senderId = user],
     unreadCount |-> unreadCount(o, user, c)]

\* variant: the comparator with its operands exchanged
compare_Ascending(a, b) == a.lastMessage.createdAt - b.lastMessage.createdAt

\* the comparator of list.sort
compare(a, b) == b.lastMessage.createdAt - a.lastMessage.createdAt

\* Array.prototype.sort is stable: x goes before the first element that
\* the comparator puts after it
Insert(s, x) ==
    LET later == {i \in DOMAIN s : compare(s[i], x) > 0}
        k == IF later = {} THEN Len(s) + 1
             ELSE CHOOSE i \in later : \A j \in later : i <= j
    IN SubSeq(s, 1, k - 1) \o <<x>> \o SubSeq(s, k, Len(s))

RECURSIVE SortList(_, _)
SortList(list, n) ==
    IF n = 0 THEN <<>> ELSE Insert(SortList(list, n - 1), list[n])

\* variant: the rows are built from the users that were found
List_FoundUsersOnly(o, user) ==
    LET ks == SelectSeq(userIds(o, user, Len(o)), LAMBDA c : c \in Users)
        list == [k \in DOMAIN ks |-> Row(o, user, ks[k])]
    IN SortList(list, Len(list))

\* the list built from the documents in order o
List(o, user) ==
    LET ks == userIds(o, user, Len(o))
        list == [k \in DOMAIN ks |-> Row(o, user, ks[k])]
    IN SortList(list, Len(list))

\* the whole handler: User.find reads names and photos only
Conversations(p, user) ==
    /\ BeginRead(p)
    /\ \E o \in Orders(Found(user)) :
         Answer(p, "conversations", user, 0, JsonList(List(o, user)))
    /\ UNCHANGED <<db, mail>>

\* ---- GET /messages/unread-count ----
\* res.json({count})
JsonCount(count) ==
    [status |-> 200, true |-> {}, false |-> {}, error |-> "", count |-> count]

\* Message.countDocuments({receiverId: me, read: false})
UnreadCount(p, user) ==
    /\ BeginRead(p)
    /\ Answer(p, "unread", user, 0,
              JsonCount(Cardinality({i \in DOMAIN messages :
                  messages[i].receiverId = user /\ ~messages[i].read})))
    /\ UNCHANGED <<db, mail>>

\* ---- POST /messages/read ----
\* variant: sender and receiver exchanged in the filter
MarkRead_Swapped(p, user, given, withUserId) ==
    /\ BeginRead(p)
    /\ IF ~given
         THEN /\ Answer(p, "read", user, withUserId, Error(400, "with (userId) required"))
              /\ UNCHANGED messages
         ELSE /\ messages' = [i \in DOMAIN messages |->
                    IF /\ messages[i].senderId = user
                       /\ messages[i].receiverId = withUserId
                       /\ ~messages[i].read
                      THEN [messages[i] EXCEPT !.read = TRUE]
                      ELSE messages[i]]
              /\ Answer(p, "read", user, withUserId, Json({"success"}, {}))
    /\ UNCHANGED <<db, emails, outbox>>

\* variant: the filter leaves out senderId
MarkRead_AnySender(p, user, given, withUserId) ==
    /\ BeginRead(p)
    /\ IF ~given
         THEN /\ Answer(p, "read", user, withUserId, Error(400, "with (userId) required"))
              /\ UNCHANGED messages
         ELSE /\ messages' = [i \in DOMAIN messages |->
                    IF messages[i].receiverId = user
                      THEN [messages[i] EXCEPT !.read = TRUE]
                      ELSE messages[i]]
              /\ Answer(p, "read", user, withUserId, Json({"success"}, {}))
    /\ UNCHANGED <<db, emails, outbox>>

\* Message.updateMany({senderId: with, receiverId: me, read: false}, {read: true})
MarkRead(p, user, given, withUserId) ==
    /\ BeginRead(p)
    /\ IF ~given
         THEN /\ Answer(p, "read", user, withUserId, Error(400, "with (userId) required"))
              /\ UNCHANGED messages
         ELSE /\ messages' = [i \in DOMAIN messages |->
                    IF /\ messages[i].senderId = withUserId
                       /\ messages[i].receiverId = user
                       /\ ~messages[i].read
                      THEN [messages[i] EXCEPT !.read = TRUE]
                      ELSE messages[i]]
              /\ Answer(p, "read", user, withUserId, Json({"success"}, {}))
    /\ UNCHANGED <<db, emails, outbox>>

\* the promise of sendNewMessageEmail settles; a failure is swallowed
MailSettles(n) ==
    /\ n \in outbox
    /\ outbox' = outbox \ {n}
    /\ \E sent \in BOOLEAN : emails' = IF sent THEN emails \cup {n} ELSE emails
    /\ UNCHANGED <<db, messages, locals, reply, started, gone, auth>>

\* ---- POST /auth/send-otp ----
\* a handler of routes/auth.js sends its response and ends
AuthAnswer(p, r, email, otp, response) ==
    /\ pc' = [pc EXCEPT ![p] = "idle"]
    /\ route' = [route EXCEPT ![p] = "none"]
    /\ form' = [form EXCEPT ![p] = NoForm]
    /\ reply' = [route |-> r, me |-> 0, param |-> otp, res |-> response,
                 email |-> email]
    /\ UNCHANGED <<me, param, request, text, gone>>

\* a handler of routes/auth.js suspends at an await
AuthSuspend(p, label, r, email, username) ==
    /\ Park(p, label, r, 0, 0, NoRequest, <<>>)
    /\ form' = [form EXCEPT ![p] = [email |-> email, username |-> username]]

\* variant: the code is stored only when none is stored yet
SendOtp_KeepsOld(p, email) ==
    /\ Begin(p)
    /\ IF normalize(email) = ""
         THEN /\ AuthAnswer(p, "send-otp", "", 0, Error(400, "Email is required"))
              /\ UNCHANGED otpStore
         ELSE /\ \E otp \in Codes :
                   otpStore' = IF otpStore[normalize(email)] = NoOtp
                     THEN [otpStore EXCEPT ![normalize(email)] =
                             [otp |-> otp, expiresAt |-> time + OTP_EXPIRY_MS]]
                     ELSE otpStore
              /\ AuthSuspend(p, "otp_email", "send-otp", normalize(email), "")
    /\ UNCHANGED <<db, mail, time, accounts>>

\* otpStore.set(normalized, {otp, expiresAt}), then await sendOtpEmail
SendOtp(p, email) ==
    /\ Begin(p)
    /\ IF normalize(email) = ""
         THEN /\ AuthAnswer(p, "send-otp", "", 0, Error(400, "Email is required"))
              /\ UNCHANGED otpStore
         ELSE /\ \E otp \in Codes :
                   otpStore' = [otpStore EXCEPT ![normalize(email)] =
                                  [otp |-> otp, expiresAt |-> time + OTP_EXPIRY_MS]]
              /\ AuthSuspend(p, "otp_email", "send-otp", normalize(email), "")
    /\ UNCHANGED <<db, mail, time, accounts>>

\* sendOtpEmail throws when the mail was not sent; the stored code stays
SendOtpEmail(p) ==
    /\ pc[p] = "otp_email"
    /\ \E sent \in BOOLEAN :
         AuthAnswer(p, "send-otp", form[p].email, 0,
                    IF sent THEN Json({"success"}, {})
                    ELSE Error(500, "Unable to send OTP. Please try again later."))
    /\ UNCHANGED <<db, mail, started, otpStore, time, accounts>>

\* ---- POST /auth/signup ----
\* variant: the code is deleted only after the account was created
Signup_DeletesLate(p, email, username, otp) ==
    /\ Begin(p)
    /\ LET emailNorm == normalize(email)
           stored == otpStore[emailNorm]
       IN IF emailNorm = ""
            THEN /\ AuthAnswer(p, "signup", "", otp, Error(400, "Email is required"))
                 /\ UNCHANGED otpStore
            ELSE IF otp = 0
            THEN /\ AuthAnswer(p, "signup", emailNorm, otp,
                               Error(400, "Valid 6-digit OTP is required"))
                 /\ UNCHANGED otpStore
            ELSE IF stored = NoOtp
            THEN /\ AuthAnswer(p, "signup", emailNorm, otp,
                               Error(400, "OTP expired or not sent"))
                 /\ UNCHANGED otpStore
            ELSE IF time > stored.expiresAt
            THEN /\ otpStore' = [otpStore EXCEPT ![emailNorm] = NoOtp]
                 /\ AuthAnswer(p, "signup", emailNorm, otp, Error(400, "OTP expired"))
            ELSE IF stored.otp # otp
            THEN /\ AuthAnswer(p, "signup", emailNorm, otp, Error(400, "Invalid OTP"))
                 /\ UNCHANGED otpStore
            ELSE /\ UNCHANGED otpStore
                 /\ AuthSuspend(p, "signup_email", "signup", emailNorm, username)
    /\ UNCHANGED <<db, mail, time, accounts>>

\* field validation and the code check, which run without an await
Signup(p, email, username, otp) ==
    /\ Begin(p)
    /\ LET emailNorm == normalize(email)
           stored == otpStore[emailNorm]
       IN IF emailNorm = ""
            THEN /\ AuthAnswer(p, "signup", "", otp, Error(400, "Email is required"))
                 /\ UNCHANGED otpStore
            ELSE IF otp = 0
            THEN /\ AuthAnswer(p, "signup", emailNorm, otp,
                               Error(400, "Valid 6-digit OTP is required"))
                 /\ UNCHANGED otpStore
            ELSE IF stored = NoOtp
            THEN /\ AuthAnswer(p, "signup", emailNorm, otp,
                               Error(400, "OTP expired or not sent"))
                 /\ UNCHANGED otpStore
            ELSE IF time > stored.expiresAt
            THEN /\ otpStore' = [otpStore EXCEPT ![emailNorm] = NoOtp]
                 /\ AuthAnswer(p, "signup", emailNorm, otp, Error(400, "OTP expired"))
            ELSE IF stored.otp # otp
            THEN /\ AuthAnswer(p, "signup", emailNorm, otp, Error(400, "Invalid OTP"))
                 /\ UNCHANGED otpStore
            ELSE /\ otpStore' = [otpStore EXCEPT ![emailNorm] = NoOtp]
                 /\ AuthSuspend(p, "signup_email", "signup", emailNorm, username)
    /\ UNCHANGED <<db, mail, time, accounts>>

\* User.findOne({email: emailNorm})
SignupEmail(p) ==
    /\ pc[p] = "signup_email"
    /\ IF \E a \in accounts : a.email = form[p].email
         THEN AuthAnswer(p, "signup", form[p].email, 0,
                         Error(400, "Email already registered"))
         ELSE AuthSuspend(p, "signup_username", "signup", form[p].email,
                          form[p].username)
    /\ UNCHANGED <<db, mail, started, otpStore, time, accounts>>

\* User.findOne({username: usernameNorm})
SignupUsername(p) ==
    /\ pc[p] = "signup_username"
    /\ IF \E a \in accounts : a.username = form[p].username
         THEN AuthAnswer(p, "signup", form[p].email, 0,
                         Error(400, "Username already taken"))
         ELSE AuthSuspend(p, "signup_create", "signup", form[p].email,
                          form[p].username)
    /\ UNCHANGED <<db, mail, started, otpStore, time, accounts>>

\* User.create(...): the unique indexes on email and username reject a
\* duplicate that appeared since the lookups (E11000, answered with 500)
SignupCreate(p) ==
    /\ pc[p] = "signup_create"
    /\ IF \E a \in accounts : a.email = form[p].email \/ a.username = form[p].username
         THEN /\ AuthAnswer(p, "signup", form[p].email, 0,
                            Error(500, "E11000 duplicate key"))
              /\ UNCHANGED accounts
         ELSE /\ accounts' = accounts \cup {form[p]}
              /\ AuthAnswer(p, "signup", form[p].email, 0, Created({}, {}))
    /\ UNCHANGED <<db, mail, started, otpStore, time>>

\* time passes
Tick(d) ==
    /\ (time \div OTP_EXPIRY_MS) + (time % OTP_EXPIRY_MS) < MaxTicks
    /\ time' = time + d
    /\ UNCHANGED <<db, mail, locals, reply, started, gone, otpStore, accounts, form>>

\* ---- a user document disappears ----
\* an account is deleted; its messages stay in the message collection
UserRemoved(u) ==
    /\ u \in Users
    /\ Cardinality(gone) < MaxGone
    /\ gone' = gone \cup {u}
    /\ UNCHANGED <<db, mail, locals, reply, started, auth>>

\* ---- faults ----
\* the store write accept is waiting for throws: the catch block answers
\* 500, the writes made so far stay
AcceptFails(p) ==
    /\ pc[p] \in {"accept_status", "accept_following", "accept_followers"}
    /\ Respond(p, Error(500, "store error"))
    /\ UNCHANGED <<db, mail, started>>

\* the server process stops: the handlers in flight are gone and send no
\* response; the store keeps what was written
ProcessStops ==
    /\ \E p \in Procs : ~Idle(p)
    /\ pc' = [p \in Procs |-> "idle"]
    /\ route' = [p \in Procs |-> "none"]
    /\ me' = [p \in Procs |-> 0]
    /\ param' = [p \in Procs |-> 0]
    /\ request' = [p \in Procs |-> NoRequest]
    /\ text' = [p \in Procs |-> <<>>]
    /\ form' = [p \in Procs |-> NoForm]
    /\ otpStore' = [e \in Emails |-> NoOtp]
    /\ UNCHANGED <<db, mail, reply, started, gone, time, accounts>>

\* ---- specifications ----
Step(p) ==
    \/ \E user \in Users, targetId \in Ids : Follow(p, user, targetId)
    \/ FollowExisting(p)
    \/ FollowAlready(p)
    \/ FollowCreate(p)
    \/ FollowEmail(p)
    \/ \E user \in Users, targetId \in Ids : Unfollow(p, user, targetId)
    \/ UnfollowFollowing(p)
    \/ UnfollowFollowers(p)
    \/ \E user \in Users, id \in ReqIds : Accept(p, user, id)
    \/ AcceptStatus(p)
    \/ AcceptFollowing(p)
    \/ AcceptFollowers(p)
    \/ \E user \in Users, id \in ReqIds : Decline(p, user, id)
    \/ DeclineStatus(p)
    \/ \E user \in Users, targetId \in Ids : Connect(p, user, targetId)
    \/ ConnectMe(p)
    \/ ConnectTarget(p)

MsgStep(p) ==
    \/ \E user \in Users, toUserId \in Ids, given \in BOOLEAN, body \in Bodies :
         SendMessage(p, user, toUserId, given, body)
    \/ SendCreate(p)

\* the read side of routes/messages.js; each handler is one store operation
ReadStep(p) ==
    \/ \E user \in Users : Conversations(p, user)
    \/ \E user \in Users : UnreadCount(p, user)
    \/ \E user \in Users, given \in BOOLEAN, withUserId \in Ids :
         MarkRead(p, user, given, withUserId)

Mail == \E n \in outbox : MailSettles(n)

\* the routes of routes/users.js served concurrently: handlers interleave at
\* their awaits
Next == \E p \in Procs : Step(p)

Spec == Init /\ [][Next]_vars

\* requests arrive one at a time: a handler starts only when none is in flight
NextSeq == \E p \in Procs : Step(p) /\ \A q \in Procs \ {p} : Idle(q)

SpecSeq == Init /\ [][NextSeq]_vars

\* one request at a time, where a write of accept may fail and the process
\* may stop
NextFault == NextSeq \/ (\E p \in Procs : AcceptFails(p)) \/ ProcessStops

SpecFault == Init /\ [][NextFault]_vars

\* the routes of routes/users.js together with message sending
NextAll == (\E p \in Procs : Step(p) \/ MsgStep(p)) \/ Mail

SpecAll == Init /\ [][NextAll]_vars

\* the handlers of routes/messages.js alone
NextMsg == \E p \in Procs : MsgStep(p) \/ ReadStep(p)

SpecMsg == Init /\ [][NextMsg]_vars

\* the handlers of routes/messages.js while accounts may be deleted
NextGone == NextMsg \/ \E u \in UserIds : UserRemoved(u)

SpecGone == Init /\ [][NextGone]_vars

\* the handlers of send-otp and signup of routes/auth.js, and the clock
AuthStep(p) ==
    \/ \E email \in RawEmails : SendOtp(p, email)
    \/ SendOtpEmail(p)
    \/ \E email \in RawEmails, username \in Usernames, otp \in 0..NumCodes :
         Signup(p, email, username, otp)
    \/ SignupEmail(p)
    \/ SignupUsername(p)
    \/ SignupCreate(p)

NextOtp == (\E p \in Procs : AuthStep(p)) \/ \E d \in {1, OTP_EXPIRY_MS} : Tick(d)

SpecOtp == Init /\ [][NextOtp]_vars

\* ---- properties ----
Rows(from, to, status) ==
    {r \in followRequests : r.fromUserId = from /\ r.toUserId = to /\ r.status = status}

RowsAfter(from, to, status) ==
    {r \in followRequests' : r.fromUserId = from /\ r.toUserId = to /\ r.status = status}

Replied(r, user, id, status) ==
    /\ reply.route = r
    /\ reply.me = user
    /\ reply.param = id
    /\ reply.res.status = status

\* C1: served one at a time, an acceptRequest that completes leaves the
\* sender following the acting user, the acting user followed by the sender
\* and the row accepted; an acceptRequest on a row that is already accepted
\* answers 404 and changes nothing in the store.
C1_AcceptThenAcceptAgain ==
    [][/\ \A p \in Procs :
            (pc[p] = "accept_followers" /\ pc'[p] = "idle") =>
              /\ reply' = [route |-> "accept", me |-> me[p], param |-> param[p],
                           res |-> Json({"success", "following"}, {})]
              /\ me[p] \in following'[request[p].fromUserId]
              /\ request[p].fromUserId \in followers'[me[p]]
              /\ \E r \in followRequests' :
                    /\ r.id = param[p]
                    /\ r.fromUserId = request[p].fromUserId
                    /\ r.toUserId = me[p]
                    /\ r.status = "accepted"
       /\ \A p \in Procs, user \in UserIds, id \in ReqIds :
            (Accept(p, user, id)
              /\ \E r \in followRequests : r.id = id /\ r.status = "accepted") =>
              /\ pc'[p] = "idle"
              /\ reply' = [route |-> "accept", me |-> user, param |-> id,
                           res |-> Error(404, "Request not found")]
              /\ UNCHANGED <<db, mail>>
      ]_vars

\* the addressee accepted a request and then tried to accept it again
C1_Witness ==
    \E r \in followRequests :
        /\ r.status = "accepted"
        /\ Replied("accept", r.toUserId, r.id, 404)
        /\ r.toUserId \in following[r.fromUserId]
        /\ r.fromUserId \in followers[r.toUserId]

\* C2: an ordered pair never has two pending rows, and a requestFollow that
\* looks for the pair's pending row and finds one answers success with
\* requested=true and leaves the ledger as it is.
C2_OnePendingPerPair ==
    /\ [](\A a, b \in UserIds : Cardinality(Rows(a, b, "pending")) <= 1)
    /\ [][\A p \in Procs :
            (FollowExisting(p) /\ Rows(me[p], param[p], "pending") # {}) =>
                /\ pc'[p] = "idle"
                /\ reply' = [route |-> "follow", me |-> me[p], param |-> param[p],
                             res |-> Json({"success", "requested"}, {})]
                /\ UNCHANGED <<followRequests, nextId>>
         ]_vars

\* of two interleaved requests for the same pair one created the row and the
\* other was stopped by the unique index: one pending row exists
C2_Witness ==
    \E a, b \in UserIds :
        /\ Replied("follow", a, b, 500)
        /\ Cardinality(Rows(a, b, "pending")) = 1
        /\ nextId = 2

\* C3: acceptRequest goes on to its writes exactly when a row with the given
\* id, addressed to the acting user and pending exists; otherwise it answers
\* 404 at once and leaves the ledger and all user sets unchanged.
C3_AcceptGuard ==
    [][\A p \in Procs, user \in UserIds, id \in ReqIds :
        Accept(p, user, id) =>
            IF \E r \in followRequests :
                  r.id = id /\ r.toUserId = user /\ r.status = "pending"
              THEN /\ pc'[p] = "accept_status"
                   /\ request'[p] \in followRequests
                   /\ request'[p].id = id
                   /\ UNCHANGED reply
              ELSE /\ pc'[p] = "idle"
                   /\ reply' = [route |-> "accept", me |-> user, param |-> id,
                                res |-> Error(404, "Request not found")]
                   /\ UNCHANGED <<db, mail>>
      ]_vars

\* a third party tried to accept a pending request and got 404
C3_Witness ==
    \E r \in followRequests, user \in UserIds :
        /\ r.status = "pending"
        /\ user \notin {r.fromUserId, r.toUserId}
        /\ Replied("accept", user, r.id, 404)
        /\ following = [u \in UserIds |-> {}]
        /\ followers = [u \in UserIds |-> {}]

\* C4: a user enters a following or followers set only by a write of an
\* acceptRequest whose acting user is the followed user and whose request,
\* found pending, goes from the follower to that user; no step of any other
\* handler (requestFollow, declineRequest, connect, unfollow, sendMessage)
\* adds to these sets.
C4_FollowOnlyByAcceptance ==
    [][\A a, b \in UserIds :
        (b \in following'[a] \ following[a] \/ a \in followers'[b] \ followers[b]) =>
            \E p \in Procs :
                /\ route[p] = "accept"
                /\ pc[p] \in {"accept_following", "accept_followers"}
                /\ pc'[p] # pc[p]
                /\ me[p] = b
                /\ request[p].fromUserId = a
                /\ request[p].toUserId = b
                /\ request[p].id = param[p]
      ]_vars

\* a follow edge exists and a message was sent after it was made
C4_Witness ==
    \E a, b \in UserIds :
        /\ b \in following[a]
        /\ a \in followers[b]
        /\ reply.route = "send" /\ reply.res.status = 201

Clean(a, b) ==
    /\ Rows(a, b, "pending") = {}
    /\ b \notin following[a]
    /\ b \in UserIds => a \notin followers[b]

\* C5: served one at a time, cancelOrUnfollow(A,B) always answers
\* {success, following:false, requested:false}; when it completes there is
\* no pending (A,B) row, B is not in A.following and A is not in
\* B.followers; and run from such a state none of its steps changes the store.
C5_UnfollowIdempotent ==
    /\ [](reply.route = "unfollow" =>
            reply.res = Json({"success"}, {"following", "requested"}))
    /\ [][\A p \in Procs :
            /\ (pc[p] = "unfollow_followers" /\ pc'[p] = "idle") =>
                  /\ RowsAfter(me[p], param[p], "pending") = {}
                  /\ param[p] \notin following'[me[p]]
                  /\ param[p] \in UserIds => me[p] \notin followers'[param[p]]
            /\ \A user \in UserIds, targetId \in Ids :
                  (Unfollow(p, user, targetId) /\ Clean(user, targetId)) =>
                      UNCHANGED <<db, mail>>
            /\ ((UnfollowFollowing(p) \/ UnfollowFollowers(p))
                  /\ Clean(me[p], param[p])) => UNCHANGED <<db, mail>>
         ]_vars

\* a follower whose request had been accepted has unfollowed
C5_Witness ==
    \E r \in followRequests :
        /\ r.status = "accepted"
        /\ Replied("unfollow", r.fromUserId, r.toUserId, 200)
        /\ Clean(r.fromUserId, r.toUserId)

\* C6: served one at a time, a requestFollow(A,B) that gets as far as
\* creating the row (A # B, B exists, no pending row, A not following B)
\* creates a pending (A,B) row and goes on to answer requested=true.
C6_RequestCreatesPending ==
    [][\A p \in Procs :
        (pc[p] = "follow_create" /\ pc'[p] # pc[p]) =>
            /\ pc'[p] = "follow_email"
            /\ RowsAfter(me[p], param[p], "pending") # {}
      ]_vars

\* C7: requestFollow(A,A) and connect(A,A) answer 400 at once and change
\* neither the ledger, nor any user set, nor the notifications sent.
C7_SelfOperationsRejected ==
    [][\A p \in Procs, user \in UserIds :
        /\ Follow(p, user, user) =>
            /\ pc'[p] = "idle"
            /\ reply' = [route |-> "follow", me |-> user, param |-> user,
                         res |-> Error(400, "Cannot follow yourself")]
            /\ UNCHANGED <<db, mail>>
        /\ Connect(p, user, user) =>
            /\ pc'[p] = "idle"
            /\ reply' = [route |-> "connect", me |-> user, param |-> user,
                         res |-> Error(400, "Cannot connect with yourself")]
            /\ UNCHANGED <<db, mail>>
      ]_vars

\* a self-follow and then a self-connect were both refused
C7_Witness ==
    \E user \in UserIds :
        /\ Replied("connect", user, user, 400)
        /\ started = 2
        /\ nextId = 1 /\ emails = {}
        /\ connections = [u \in UserIds |-> {}]
        /\ \A p \in Procs : Idle(p)

\* C8: once connect(A,B) has answered success, A's connected check on B and
\* B's on A are true, and a connected check that is true stays true.
C8_ConnectedBothWaysForever ==
    /\ []((reply.route = "connect" /\ reply.res.status = 200) =>
            connected(reply.me, reply.param) /\ connected(reply.param, reply.me))
    /\ [][\A a, b \in UserIds : connected(a, b) => connected(a, b)']_vars

\* a connect succeeded and later requests of the same user are being served
C8_Witness ==
    \E p \in Procs :
        /\ reply.route = "connect" /\ reply.res.status = 200
        /\ connected(reply.me, reply.param) /\ connected(reply.param, reply.me)
        /\ pc[p] = "unfollow_followers"
        /\ me[p] = reply.me /\ param[p] = reply.param

\* C9: connections is symmetric in every state, the states between the two
\* writes of a connect included.
C9_ConnectionsSymmetric ==
    \A a, b \in UserIds : a \in connections[b] => b \in connections[a]

\* C10: declineRequest passes the same check as accept, sets the status to
\* declined and changes no user set; a row whose status is accepted or
\* declined is never changed or removed again.
C10_DeclineAndTerminalStatus ==
    [][/\ \A p \in Procs :
            (pc[p] = "decline_status" /\ pc'[p] # pc[p]) =>
                /\ request[p].toUserId = me[p]
                /\ request[p].id = param[p]
                /\ \A r \in followRequests' : r.id = param[p] => r.status = "declined"
                /\ UNCHANGED sets
       /\ \A r \in followRequests :
            r.status \in {"accepted", "declined"} => r \in followRequests'
      ]_vars

\* C11: a requestFollow(A,B) made while A follows B and no (A,B) row is
\* pending passes the self and existence checks, finds no pending row, and
\* at the following check answers {success, following:true}; none of these
\* steps writes to the store or sends a notification.
C11_AlreadyFollowing ==
    [][\A p \in Procs :
        /\ \A user \in UserIds, targetId \in Ids :
              (Follow(p, user, targetId) /\ targetId \in following[user]) =>
                  /\ pc'[p] = "follow_existing"
                  /\ UNCHANGED <<db, mail>>
        /\ (FollowExisting(p) /\ Rows(me[p], param[p], "pending") = {}) =>
              /\ pc'[p] = "follow_already"
              /\ UNCHANGED <<db, mail>>
        /\ (FollowAlready(p) /\ param[p] \in following[me[p]]) =>
              /\ pc'[p] = "idle"
              /\ reply' = [route |-> "follow", me |-> me[p], param |-> param[p],
                           res |-> Json({"success", "following"}, {})]
              /\ UNCHANGED <<db, mail>>
      ]_vars

\* a follower asked again to follow: one row, accepted, and following:true
C11_Witness ==
    \E r \in followRequests :
        /\ r.status = "accepted"
        /\ r.toUserId \in following[r.fromUserId]
        /\ Replied("follow", r.fromUserId, r.toUserId, 200)
        /\ "following" \in reply.res.true
        /\ nextId = 2

\* C18: of an accept and a decline of the same pending request only one
\* wins, so no row is ever declined while its requester is in the follow
\* sets of the pair (following of the requester, followers of the target).
C18_OnlyOneWins ==
    \A r \in followRequests :
        r.status = "declined" =>
            /\ r.toUserId \notin following[r.fromUserId]
            /\ r.fromUserId \notin followers[r.toUserId]

\* C19: served one at a time, whenever no handler is in progress (so after
\* every completed accept and unfollow) B is in following[A] exactly when A
\* is in followers[B], for all users A and B.
C19_InverseViews ==
    (\A p \in Procs : Idle(p)) =>
        \A a, b \in UserIds : b \in following[a] <=> a \in followers[b]

\* an accepted edge that was unfollowed again, and a second edge still there
C19_Witness ==
    /\ \A p \in Procs : Idle(p)
    /\ reply.route \in {"accept", "unfollow"} /\ reply.res.status = 200
    /\ \E r \in followRequests :
          /\ r.status = "accepted"
          /\ (reply.route = "unfollow") =>
                /\ r.fromUserId = reply.me /\ r.toUserId = reply.param
                /\ r.toUserId \notin following[r.fromUserId]
                /\ r.fromUserId \notin followers[r.toUserId]
          /\ (reply.route = "accept") =>
                /\ r.toUserId = reply.me /\ r.id = reply.param
                /\ r.toUserId \in following[r.fromUserId]
                /\ r.fromUserId \in followers[r.toUserId]
    /\ reply.route = "unfollow"

\* C20: an accept by B of A's request interleaved with an unfollow(A,B) can
\* end one-sided.  The last write of each handler is unconditional and
\* touches one set only: when accept's followers write comes after the
\* unfollow has pulled B from following[A], accept answers success with A
\* in followers[B] and B not in following[A]; when unfollow's followers
\* pull comes after accept has added B to following[A] again, unfollow
\* answers success with B in following[A] and A not in followers[B].
C20_RaceEndsOneSided ==
    [][\A p \in Procs :
        /\ (AcceptFollowers(p) /\ me[p] \notin following[request[p].fromUserId]) =>
              /\ request[p].fromUserId \in followers'[me[p]]
              /\ me[p] \notin following'[request[p].fromUserId]
              /\ reply'.route = "accept" /\ reply'.res.status = 200
        /\ (UnfollowFollowers(p) /\ param[p] \in UserIds
                                 /\ param[p] \in following[me[p]]) =>
              /\ param[p] \in following'[me[p]]
              /\ me[p] \notin followers'[param[p]]
              /\ reply'.route = "unfollow" /\ reply'.res.status = 200
      ]_vars

\* both handlers have completed, accept last, and the pair is one-sided
C20_Witness ==
    /\ \A p \in Procs : Idle(p)
    /\ reply.route = "accept" /\ reply.res.status = 200
    /\ \E a \in UserIds :
          /\ a \in followers[reply.me]
          /\ reply.me \notin following[a]
          /\ Rows(a, reply.me, "pending") = {}
          /\ Rows(a, reply.me, "declined") = {}

\* both handlers have completed, unfollow last, one-sided the other way
C20_WitnessUnfollowLast ==
    /\ \A p \in Procs : Idle(p)
    /\ reply.route = "unfollow" /\ reply.res.status = 200
    /\ reply.param \in UserIds
    /\ reply.param \in following[reply.me]
    /\ reply.me \notin followers[reply.param]

\* C17: notification dispatch never blocks the response: the step that
\* creates the ledger row (requestFollow) or the message row (sendMessage)
\* is the step that produces the success response, with the notification
\* left to settle on its own; and a notification that fails does not
\* change the result or the created row.
C17_DispatchNeverBlocks ==
    [][\A p \in Procs :
        /\ (FollowCreate(p) /\ followRequests' # followRequests) =>
              /\ pc'[p] = "idle"
              /\ reply' = [route |-> "follow", me |-> me[p], param |-> param[p],
                           res |-> Json({"success", "requested"}, {})]
        /\ SendCreate(p) =>
              /\ pc'[p] = "idle"
              /\ reply'.route = "send" /\ reply'.res.status = 201
        /\ (FollowEmail(p) /\ emails' = emails) =>
              /\ reply'.res = Json({"success", "requested"}, {})
              /\ followRequests' = followRequests
      ]_vars

\* a text that is empty or consists of blanks only
Blank(body) == \A i \in DOMAIN body : body[i] = " "

\* C15: a sendMessage whose text is missing, empty or blank is answered
\* with 400 at once; no message row is created and no notification is
\* started or sent.
C15_BlankTextRejected ==
    [][started' # started =>
        \A p \in Procs, user \in UserIds, toUserId \in Ids,
           given \in BOOLEAN, body \in Bodies :
          ((~given \/ Blank(body)) /\ SendMessage(p, user, toUserId, given, body)) =>
              /\ pc'[p] = "idle"
              /\ reply'.route = "send" /\ reply'.me = user
              /\ reply'.res.status = 400
              /\ UNCHANGED <<messages, outbox, emails>>
      ]_vars

\* a send to an existing user was refused for its text, nothing was stored
C15_Witness ==
    /\ Replied("send", reply.me, reply.param, 400)
    /\ reply.param \in UserIds
    /\ messages = <<>> /\ outbox = {} /\ emails = {}
    /\ started > 0

\* t is body without its leading and trailing blanks
Stripped(body, t) ==
    /\ t # <<>> /\ t[1] # " " /\ t[Len(t)] # " "
    /\ \E i \in DOMAIN body :
          /\ SubSeq(body, i, i + Len(t) - 1) = t
          /\ \A k \in DOMAIN body : (k < i \/ k >= i + Len(t)) => body[k] = " "

\* C16: a sendMessage with a text that is not blank: for a receiver that
\* does not exist it is answered 404 and no row is created; for an existing
\* receiver the lookup writes nothing and the create step appends exactly one
\* row (sender, receiver, trimmed text, read=false) behind the unchanged
\* existing rows and answers 201.
C16_SendAppendsOneRow ==
    [][started' # started \/ Len(messages') # Len(messages) =>
        \A p \in Procs :
          /\ \A user \in UserIds, toUserId \in Ids, body \in Bodies :
               (~Blank(body) /\ SendMessage(p, user, toUserId, TRUE, body)) =>
                  /\ messages' = messages /\ outbox' = outbox
                  /\ IF toUserId \in UserIds
                       THEN pc'[p] = "send_create"
                       ELSE /\ pc'[p] = "idle"
                            /\ reply'.route = "send" /\ reply'.res.status = 404
          /\ SendCreate(p) =>
               /\ Len(messages') = Len(messages) + 1
               /\ SubSeq(messages', 1, Len(messages)) = messages
               /\ LET m == messages'[Len(messages')] IN
                    /\ m.senderId = me[p] /\ m.receiverId = param[p]
                    /\ Stripped(text[p], m.text)
                    /\ m.read = FALSE
               /\ reply'.route = "send" /\ reply'.res.status = 201
      ]_vars

\* a message was appended behind one that had been read already
C16_Witness ==
    /\ reply.route = "send" /\ reply.res.status = 201
    /\ Len(messages) = 2
    /\ messages[1].read /\ ~messages[2].read
    /\ messages[2].senderId = reply.me /\ messages[2].receiverId = reply.param
    /\ messages[2].text = <<"a">>

\* C14: markRead(A, with B) leaves every message from B to A read, leaves
\* every other message (A to B, and those between A and a third user) as it
\* was, creates and deletes nothing, and changes nothing at all when every
\* message from B to A is read already, as it is after a first markRead.
C14_MarkRead ==
    [][started' # started =>
        \A p \in Procs, user \in UserIds, withUserId \in Ids :
          MarkRead(p, user, TRUE, withUserId) =>
            /\ DOMAIN messages' = DOMAIN messages
            /\ \A i \in DOMAIN messages :
                  IF messages[i].senderId = withUserId /\ messages[i].receiverId = user
                    THEN messages'[i] = [messages[i] EXCEPT !.read = TRUE]
                    ELSE messages'[i] = messages[i]
            /\ (\A i \in DOMAIN messages :
                  (messages[i].senderId = withUserId /\ messages[i].receiverId = user)
                      => messages[i].read)
                  => messages' = messages
            /\ \A i \in DOMAIN messages' :
                  (messages'[i].senderId = withUserId /\ messages'[i].receiverId = user)
                      => messages'[i].read
            /\ reply'.route = "read" /\ reply'.res.status = 200
      ]_vars

\* after markRead(A, with B): a read message from B to A next to an unread
\* message that is not from B to A
C14_Witness ==
    /\ reply.route = "read" /\ reply.res.status = 200
    /\ \E i, j \in DOMAIN messages :
          /\ messages[i].senderId = reply.param /\ messages[i].receiverId = reply.me
          /\ messages[i].read
          /\ ~messages[j].read
          /\ messages[j].senderId = reply.me /\ messages[j].receiverId = reply.param
    /\ reply.me # reply.param

\* the messages exchanged between u and c
Between(u, c) ==
    {i \in DOMAIN messages :
        \/ messages[i].senderId = u /\ messages[i].receiverId = c
        \/ messages[i].senderId = c /\ messages[i].receiverId = u}

\* C12: in the conversation list answered to U, the row of counterpart C
\* shows as lastMessage a message between U and C whose createdAt is the
\* greatest among all messages between them, isMe tells whether U sent that
\* message, and unreadCount is the number of all unread messages from C to U.
C12_Aggregation ==
    [][(started' # started /\ reply'.route = "conversations") =>
        LET u == reply'.me
            list == reply'.res.list
        IN \A k \in DOMAIN list :
             LET c == list[k].id IN
               /\ \E i \in Between(u, c) :
                     /\ \A j \in Between(u, c) :
                           messages[j].createdAt <= messages[i].createdAt
                     /\ list[k].lastMessage.createdAt = messages[i].createdAt
                     /\ list[k].lastMessage.text = messages[i].text
                     /\ list[k].lastMessage.isMe = (messages[i].senderId = u)
               /\ list[k].unreadCount =
                     Cardinality({i \in DOMAIN messages :
                         /\ messages[i].senderId = c
                         /\ messages[i].receiverId = u
                         /\ ~messages[i].read})
      ]_vars

\* a row whose last message is U's own while an older message of the
\* counterpart is still unread
C12_Witness ==
    /\ reply.route = "conversations"
    /\ \E k \in DOMAIN reply.res.list :
          /\ reply.res.list[k].lastMessage.isMe
          /\ reply.res.list[k].unreadCount = 1
          /\ reply.res.list[k].id # reply.me
          /\ reply.res.list[k].lastMessage.createdAt = 2

\* C13: the conversation list answered to U has one row for each user that
\* U has exchanged a message with, no two rows for the same counterpart and
\* no row for anyone else, and the rows come with the most recent last
\* message first.
C13_OneRowPerCounterpart ==
    [][(started' # started /\ reply'.route = "conversations") =>
        LET u == reply'.me
            list == reply'.res.list
        IN /\ {list[k].id : k \in DOMAIN list} = {c \in Ids : Between(u, c) # {}}
           /\ \A k, l \in DOMAIN list : k # l => list[k].id # list[l].id
           /\ \A k, l \in DOMAIN list :
                 k < l => list[k].lastMessage.createdAt >= list[l].lastMessage.createdAt
      ]_vars

\* three messages with two counterparts: two rows, the newer one first
C13_Witness ==
    /\ reply.route = "conversations"
    /\ Cardinality(Found(reply.me)) = 3
    /\ Len(reply.res.list) = 2
    /\ reply.res.list[1].lastMessage.createdAt > reply.res.list[2].lastMessage.createdAt
    /\ \E i \in DOMAIN messages : messages[i].receiverId = reply.me
                                    /\ messages[i].senderId # reply.me

\* C25: served one at a time, no ordered pair (A,B) is following and
\* requested at once: B is never in following[A] while a pending (A,B) row
\* exists, and follow-status never answers following and requested together.
C25_NotFollowingAndRequested ==
    \A a \in UserIds, b \in Ids :
        /\ ~(b \in following[a] /\ Rows(a, b, "pending") # {})
        /\ ~(followStatus(a, b).following /\ followStatus(a, b).requested)

\* one pair is following (its row accepted) while another pair is requested
C25_Witness ==
    /\ \A p \in Procs : Idle(p)
    /\ \E a, b \in UserIds :
          /\ followStatus(a, b) = [following |-> TRUE, requested |-> FALSE]
          /\ Rows(a, b, "accepted") # {}
    /\ \E a, b \in UserIds :
          followStatus(a, b) = [following |-> FALSE, requested |-> TRUE]

\* C27: a requestFollow(A,B) for a B that is not a user is answered 404 at
\* once, with no ledger row created and no notification sent; and every
\* ledger row names an existing user as toUserId and a different user as
\* fromUserId.
C27_UnknownTargetRejected ==
    /\ [](\A r \in followRequests :
              r.toUserId \in UserIds /\ r.fromUserId # r.toUserId)
    /\ [][started' # started =>
            \A p \in Procs, user \in UserIds, targetId \in Ids \ UserIds :
              Follow(p, user, targetId) =>
                 /\ pc'[p] = "idle"
                 /\ reply' = [route |-> "follow", me |-> user, param |-> targetId,
                              res |-> Error(404, "User not found")]
                 /\ UNCHANGED <<db, mail>>
        ]_vars

\* an unknown target was refused while the ledger holds a row of a known one
C27_Witness ==
    /\ Replied("follow", reply.me, reply.param, 404)
    /\ reply.param \notin UserIds
    /\ \E r \in followRequests : r.fromUserId = reply.me

\* C23: connect(A,B) with B not a user is answered 404 and changes nothing;
\* otherwise its two writes add B to connections[A] and A to connections[B]
\* with no step of B in between, change nothing when the pair is connected
\* already, and touch no followers/following set and no ledger row; and the
\* connections sets are changed by connect handlers only.
C23_ConnectOrthogonal ==
    [][\A p \in Procs :
        /\ \A user \in UserIds :
              Connect(p, user, 0) =>
                 /\ pc'[p] = "idle"
                 /\ reply' = [route |-> "connect", me |-> user, param |-> 0,
                              res |-> Error(404, "User not found")]
                 /\ UNCHANGED <<db, mail>>
        /\ ConnectMe(p) =>
              /\ connections' = [connections EXCEPT ![me[p]] = @ \cup {param[p]}]
              /\ param[p] \in connections[me[p]] => connections' = connections
              /\ pc'[p] = "connect_target"
              /\ UNCHANGED <<followers, following, followRequests, nextId, mail>>
        /\ ConnectTarget(p) =>
              /\ connections' = [connections EXCEPT ![param[p]] = @ \cup {me[p]}]
              /\ me[p] \in connections[param[p]] => connections' = connections
              /\ pc'[p] = "idle" /\ reply'.res.status = 200
              /\ UNCHANGED <<followers, following, followRequests, nextId, mail>>
        /\ (route[p] # "connect" /\ pc'[p] # pc[p]) => connections' = connections
        /\ (route[p] = "none" /\ route'[p] # "connect" /\ started' # started)
              => connections' = connections
      ]_vars

\* a connected pair next to a pending follow request of the same pair
C23_Witness ==
    /\ Replied("connect", reply.me, reply.param, 200)
    /\ reply.param \in connections[reply.me]
    /\ reply.me \in connections[reply.param]
    /\ Rows(reply.param, reply.me, "pending") # {}
    /\ \A u \in UserIds : following[u] = {} /\ followers[u] = {}

\* C22: a message keeps the sender, receiver, text and creation time it was
\* created with, no message is ever removed, a read flag never goes back to
\* false, and a read flag is set only by a markRead of the message's
\* receiver that names the message's sender.
C22_MessagesImmutable ==
    [][/\ Len(messages') >= Len(messages)
       /\ \A i \in DOMAIN messages :
             /\ messages'[i] = [messages[i] EXCEPT !.read = messages'[i].read]
             /\ messages[i].read => messages'[i].read
             /\ (~messages[i].read /\ messages'[i].read) =>
                   /\ reply' = [route |-> "read", me |-> messages[i].receiverId,
                                param |-> messages[i].senderId,
                                res |-> Json({"success"}, {})]
                   /\ started' # started
      ]_vars

\* two messages of one sender, sent at different times, read by one markRead
C22_Witness ==
    /\ Replied("read", reply.me, reply.param, 200)
    /\ \E i, j \in DOMAIN messages :
          /\ messages[i].createdAt < messages[j].createdAt
          /\ messages[i].read /\ messages[j].read
          /\ messages[i].senderId = reply.param /\ messages[j].senderId = reply.param
          /\ messages[i].receiverId = reply.me /\ messages[j].receiverId = reply.me
          /\ messages[i].text = <<"a">>

\* the sum of the unreadCount fields of the first n rows of a list
RECURSIVE SumUnread(_, _)
SumUnread(list, n) ==
    IF n = 0 THEN 0 ELSE SumUnread(list, n - 1) + list[n].unreadCount

\* C26: for every user U and message store, self-messages included, the
\* unreadCount fields of U's conversation list add up to U's unread-count,
\* the number of unread messages with receiver U: whenever unread-count
\* answers, every list conversations could answer in that state adds up to
\* the count, and whenever conversations answers, its rows add up to the
\* number of unread messages received by U.
C26_UnreadSumsAgree ==
    [][started' # started =>
        LET u == reply'.me
            unread == Cardinality({i \in DOMAIN messages' :
                         messages'[i].receiverId = u /\ ~messages'[i].read})
        IN /\ reply'.route = "unread" =>
                /\ reply'.res.count = unread
                /\ \A o \in Orders(Found(u)) :
                      SumUnread(List(o, u), Len(List(o, u))) = reply'.res.count
           /\ reply'.route = "conversations" =>
                SumUnread(reply'.res.list, Len(reply'.res.list)) = unread
      ]_vars

\* unread-count of a user with an unread self-message and an unread message
\* of another user
C26_Witness ==
    /\ reply.route = "unread" /\ reply.res.count = 2
    /\ \E i, j \in DOMAIN messages :
          /\ messages[i].senderId = reply.me /\ messages[i].receiverId = reply.me
          /\ ~messages[i].read
          /\ messages[j].senderId # reply.me /\ messages[j].receiverId = reply.me
          /\ ~messages[j].read

\* C24: a counterpart with messages with U whose user document is gone has
\* exactly one row in U's conversation list; the row carries the fallback
\* name (and only such rows do), and its lastMessage and unreadCount are
\* those of an existing counterpart: a newest message of the pair and the
\* number of unread messages of the counterpart to U.
C24_UnknownCounterpartRow ==
    [][(started' # started /\ pc' = pc /\ reply'.route = "conversations") =>
        LET u == reply'.me
            list == reply'.res.list
        IN /\ \A c \in gone :
                Between(u, c) # {} =>
                    Cardinality({k \in DOMAIN list : list[k].id = c}) = 1
           /\ \A k \in DOMAIN list :
                /\ list[k].name = "Unknown" <=> list[k].id \in gone
                /\ list[k].id \in gone =>
                     LET c == list[k].id IN
                       /\ \E i \in Between(u, c) :
                             /\ \A j \in Between(u, c) :
                                   messages[j].createdAt <= messages[i].createdAt
                             /\ list[k].lastMessage =
                                   [text |-> messages[i].text,
                                    createdAt |-> messages[i].createdAt,
                                    isMe |-> messages[i].senderId = u]
                       /\ list[k].unreadCount =
                             Cardinality({i \in DOMAIN messages :
                                 /\ messages[i].senderId = c
                                 /\ messages[i].receiverId = u
                                 /\ ~messages[i].read})
      ]_vars

\* a list with a row of a deleted counterpart, which has an unread message,
\* next to the row of an existing one
C24_Witness ==
    /\ reply.route = "conversations"
    /\ \E k, l \in DOMAIN reply.res.list :
          /\ reply.res.list[k].id \in gone
          /\ reply.res.list[k].name = "Unknown"
          /\ reply.res.list[k].unreadCount = 1
          /\ reply.res.list[l].name = "name"

\* some accept handler is working on row r
Accepting(r) ==
    \E p \in Procs : route[p] = "accept" /\ request[p].id = r.id

\* C21: acceptRequest is neither atomic nor compensated.  A write of accept
\* that fails is answered 500 with the store left as the earlier writes made
\* it, and a process that stops leaves the store as it is; an accepted row
\* stays accepted; and what the follow sets lack of an accepted row that no
\* accept handler is working on they lack from then on, a later
\* acceptRequest of the row being answered 404 without a write.
C21_AcceptNotCompensated ==
    [][/\ \A p \in Procs :
            AcceptFails(p) =>
               /\ reply' = [route |-> "accept", me |-> me[p], param |-> param[p],
                            res |-> Error(500, "store error")]
               /\ pc'[p] = "idle"
               /\ UNCHANGED db
       /\ ProcessStops => UNCHANGED db
       /\ \A r \in followRequests :
            r.status = "accepted" =>
               /\ r \in followRequests'
               /\ ~Accepting(r) =>
                    /\ r.toUserId \notin following[r.fromUserId]
                          => r.toUserId \notin following'[r.fromUserId]
                    /\ r.fromUserId \notin followers[r.toUserId]
                          => r.fromUserId \notin followers'[r.toUserId]
                    /\ \A p \in Procs :
                          Accept(p, r.toUserId, r.id) =>
                             /\ reply'.res = Error(404, "Request not found")
                             /\ pc'[p] = "idle"
                             /\ UNCHANGED db
      ]_vars

\* accept failed at its last write and was asked again: the row is accepted,
\* the requester's following set has the target, the target's followers set
\* lacks the requester, and the second accept was answered 404
C21_Witness ==
    /\ \A p \in Procs : Idle(p)
    /\ Replied("accept", reply.me, reply.param, 404)
    /\ \E r \in followRequests :
          /\ r.id = reply.param /\ r.toUserId = reply.me
          /\ r.status = "accepted"
          /\ r.toUserId \in following[r.fromUserId]
          /\ r.fromUserId \notin followers[r.toUserId]

\* accept stopped after the status write: an accepted row none of whose
\* follow sets was written
C21_WitnessStopped ==
    /\ \A p \in Procs : Idle(p)
    /\ \E r \in followRequests :
          /\ r.status = "accepted"
          /\ r.toUserId \notin following[r.fromUserId]
          /\ r.fromUserId \notin followers[r.toUserId]
          /\ reply.route = "follow" /\ reply.me = r.fromUserId
          /\ reply.res.status = 200

\* handler p takes a signup for the normalized email e through the code check
Passes(p, e) ==
    /\ pc[p] = "idle" /\ pc'[p] = "signup_email"
    /\ form'[p].email = e

\* a code is stored for e that was not stored before, by a send-otp for e
Issued(e) ==
    \E p \in Procs :
        /\ pc[p] = "idle" /\ pc'[p] = "otp_email"
        /\ form'[p].email = e

\* the parts of C28 about a code that passes: it is the stored one and is
\* removed in the step of the check, the later steps of signup (taken email,
\* taken username, create) do not bring it back, and only a send-otp for
\* the email stores a code where none is stored
SingleUse ==
    /\ \A p \in Procs, e \in Emails :
          Passes(p, e) =>
             /\ otpStore[e] # NoOtp
             /\ otpStore'[e] = NoOtp
    /\ \A p \in Procs :
          (SignupEmail(p) \/ SignupUsername(p) \/ SignupCreate(p))
              => otpStore' = otpStore
    /\ \A e \in Emails :
          (otpStore[e] = NoOtp /\ otpStore'[e] # NoOtp) => Issued(e)
    /\ \A p \in Procs, email \in RawEmails, username \in Usernames, otp \in Codes :
          (/\ normalize(email) # ""
           /\ otpStore[normalize(email)] = NoOtp
           /\ Signup(p, email, username, otp))
              => /\ pc'[p] = "idle"
                 /\ reply'.route = "signup" /\ reply'.res.status = 400

\* a signup for email presents a code other than the stored one
WrongCode(p, email, username, otp) ==
    /\ normalize(email) # ""
    /\ otpStore[normalize(email)] # NoOtp
    /\ otpStore[normalize(email)].otp # otp
    /\ Signup(p, email, username, otp)

C28_WitnessUsed ==
    /\ reply.route = "signup"
    /\ reply.res = Error(400, "OTP expired or not sent")
    /\ otpStore[reply.email] = NoOtp
    /\ \E p \in Procs : pc[p] = "signup_email" /\ form[p].email = reply.email

\* a signup for email presents otp while a code is stored for the email
Presents(p, email, username, otp) ==
    /\ normalize(email) # ""
    /\ otpStore[normalize(email)] # NoOtp
    /\ Signup(p, email, username, otp)

\* C29: a signup passes the code check only with the code now stored for
\* its email and not after that code's expiry time; a code presented after
\* the expiry is answered 400 and its entry removed; a send-otp replaces the
\* entry of its email by the code it issued, expiring OTP_EXPIRY_MS later;
\* and an entry changes only by being issued or removed, so the stored code
\* is always the most recently issued one.
C29_OnlyLatestUnexpiredPasses ==
    [][/\ \A p \in Procs, email \in RawEmails, username \in Usernames, otp \in Codes :
             Presents(p, email, username, otp) =>
                LET stored == otpStore[normalize(email)]
                IN /\ pc'[p] = "signup_email"
                         => stored.otp = otp /\ time <= stored.expiresAt
                   /\ time > stored.expiresAt
                         => /\ pc'[p] = "idle"
                            /\ reply'.res = Error(400, "OTP expired")
                            /\ otpStore' = [otpStore EXCEPT ![normalize(email)] = NoOtp]
       /\ \A e \in Emails :
             /\ Issued(e) =>
                   /\ otpStore'[e].otp \in Codes
                   /\ otpStore'[e].expiresAt = time + OTP_EXPIRY_MS
                   /\ \A o \in Emails \ {e} : otpStore'[o] = otpStore[o]
             /\ otpStore'[e] # otpStore[e] => Issued(e) \/ otpStore'[e] = NoOtp
      ]_vars

\* a code presented after its expiry time was refused and its entry removed
C29_Witness ==
    /\ reply.route = "signup" /\ reply.res = Error(400, "OTP expired")
    /\ otpStore[reply.email] = NoOtp
    /\ time > OTP_EXPIRY_MS

\* a send-otp whose mail is still being sent has replaced the code of its
\* email, and a signup presenting another code than the new one was refused
C29_WitnessReplaced ==
    /\ reply.route = "signup" /\ reply.res = Error(400, "Invalid OTP")
    /\ otpStore[reply.email].otp # reply.param
    /\ otpStore[reply.email].expiresAt = time + OTP_EXPIRY_MS
    /\ time > 0
    /\ \E p \in Procs : pc[p] = "otp_email" /\ form[p].email = reply.email

====
